---- MODULE Spec2Model ----
(***************************************************************************)
(* Model of convert-rust: encoding detection (detection.rs), transcoding   *)
(* with line-ending normalisation (conversion.rs), the backup / verify /   *)
(* rollback coordinator (safety.rs) and the batch driver (main.rs).        *)
(*                                                                         *)
(* Bytes are integers 0..255, a text is a sequence of Unicode scalar       *)
(* values, a path is a sequence of path components and the file system is  *)
(* a function from the paths of the existing files to their content.       *)
(***************************************************************************)
EXTENDS Integers, Sequences, FiniteSets, TLC

VARIABLES
    fs,          \* file system: path -> content of every regular file
    orig,        \* fs as it was when the run started (history)
    args,        \* parsed command line (main.rs Args)
    stats,       \* the Statistics; in the run over a tree its files alone: the
                 \* scanned (path, name, encoding) list
    toScan,      \* paths scan_directory has not visited yet
    pc,          \* position of main / convert_files
    idx,         \* index of the file the convert_files loop is at
    backup_path, \* convert_files' backup_path of the current file (an Option)
    st,          \* per-file processing state (history)
    effects,     \* file operations the batch has performed (history)
    call,        \* the pure operation under check and its inputs
    ret          \* its result

vars == <<fs, orig, args, stats, toScan, pc, idx, backup_path, st, effects, call, ret>>

\* FileEncoding.bom without a marker.
None == "None"
\* Rust's Option: None is the empty sequence, Some(x) the one-element sequence.
NoneOpt == <<>>
Some(x) == <<x>>
IsSome(o) == o # <<>>
Unwrap(o) == o[1]

\* Rust's Result.
Ok(v) == [ok |-> TRUE, val |-> v]
Err(e) == [ok |-> FALSE, err |-> e]

(***************************************************************************)
(* Bounds.                                                                 *)
(***************************************************************************)
MaxDetectLen == 4
MaxTextLen == 5
MaxChunks == 3
MaxFiles == 2
MaxAdds == 3
MaxVerifyChunks == 3

(***************************************************************************)
(* Sequence helpers.                                                       *)
(***************************************************************************)
Drop(s, n) == SubSeq(s, n + 1, Len(s))

StartsWith(s, p) == Len(s) >= Len(p) /\ SubSeq(s, 1, Len(p)) = p

SeqsUpTo(S, n) == UNION {[1..k -> S] : k \in 0..n}

RECURSIVE Flatten(_)
Flatten(ss) == IF ss = <<>> THEN <<>> ELSE Head(ss) \o Flatten(Tail(ss))

(***************************************************************************)
(* Paths and files.                                                        *)
(***************************************************************************)
\* Path::join, Path::strip_prefix and Path::file_name on sequences of components.
join(dir, rel) == dir \o rel

strip_prefix(path, base) ==
    IF StartsWith(path, base) THEN Ok(Drop(path, Len(base))) ELSE Err("StripPrefixError")

file_name(path) == path[Len(path)]

WriteFile(files, path, content) ==
    [p \in DOMAIN files \cup {path} |-> IF p = path THEN content ELSE files[p]]

\* The file system without any file.
NoFiles == [p \in {} |-> <<>>]

(***************************************************************************)
(* detection.rs                                                            *)
(***************************************************************************)
FileEncoding(encoding, bom) == [encoding |-> encoding, bom |-> bom]

\* detect_bom with the two-byte FF FE pattern tried before the four-byte
\* FF FE 00 00 pattern.
detect_bom_16le_first(content) ==
    IF Len(content) < 2 THEN NoneOpt
    ELSE IF StartsWith(content, <<239, 187, 191>>) THEN Some([bom_type |-> "UTF-8", skip_bytes |-> 3])
    ELSE IF StartsWith(content, <<254, 255>>) THEN Some([bom_type |-> "UTF-16BE", skip_bytes |-> 2])
    ELSE IF StartsWith(content, <<255, 254>>) THEN Some([bom_type |-> "UTF-16LE", skip_bytes |-> 2])
    ELSE IF StartsWith(content, <<255, 254, 0, 0>>) THEN Some([bom_type |-> "UTF-32LE", skip_bytes |-> 4])
    ELSE IF StartsWith(content, <<0, 0, 254, 255>>) THEN Some([bom_type |-> "UTF-32BE", skip_bytes |-> 4])
    ELSE NoneOpt

\* detect_bom: the slice patterns are tried top to bottom; `..` matches any rest.
detect_bom(content) ==
    IF Len(content) < 2 THEN NoneOpt
    ELSE IF StartsWith(content, <<239, 187, 191>>) THEN Some([bom_type |-> "UTF-8", skip_bytes |-> 3])
    ELSE IF StartsWith(content, <<254, 255>>) THEN Some([bom_type |-> "UTF-16BE", skip_bytes |-> 2])
    ELSE IF StartsWith(content, <<255, 254, 0, 0>>) THEN Some([bom_type |-> "UTF-32LE", skip_bytes |-> 4])
    ELSE IF StartsWith(content, <<0, 0, 254, 255>>) THEN Some([bom_type |-> "UTF-32BE", skip_bytes |-> 4])
    ELSE IF StartsWith(content, <<255, 254>>) THEN Some([bom_type |-> "UTF-16LE", skip_bytes |-> 2])
    ELSE NoneOpt

is_ascii(content) == \A i \in 1..Len(content) : content[i] < 128

IsCont(b) == b >= 128 /\ b <= 191

\* Length of the well-formed UTF-8 sequence at the head of b (0: ill-formed).
Utf8SeqLen(b) ==
    LET n == Len(b)
        b1 == b[1]
    IN  IF b1 < 128 THEN 1
        ELSE IF b1 >= 194 /\ b1 <= 223
            THEN IF n >= 2 /\ IsCont(b[2]) THEN 2 ELSE 0
        ELSE IF b1 >= 224 /\ b1 <= 239
            THEN IF n >= 3 /\ IsCont(b[2]) /\ IsCont(b[3])
                    /\ (b1 = 224 => b[2] >= 160)
                    /\ (b1 = 237 => b[2] <= 159)
                 THEN 3 ELSE 0
        ELSE IF b1 >= 240 /\ b1 <= 244
            THEN IF n >= 4 /\ IsCont(b[2]) /\ IsCont(b[3]) /\ IsCont(b[4])
                    /\ (b1 = 240 => b[2] >= 144)
                    /\ (b1 = 244 => b[2] <= 143)
                 THEN 4 ELSE 0
        ELSE 0

Utf8Scalar(b, k) ==
    IF k = 1 THEN b[1]
    ELSE IF k = 2 THEN (b[1] - 192) * 64 + (b[2] - 128)
    ELSE IF k = 3 THEN (b[1] - 224) * 4096 + (b[2] - 128) * 64 + (b[3] - 128)
    ELSE (b[1] - 240) * 262144 + (b[2] - 128) * 4096 + (b[3] - 128) * 64 + (b[4] - 128)

\* A decoder's result (text, had_errors) extended at the front by one decoded
\* character, or by U+FFFD for a malformed sequence.
Decoded(c, rest) == [text |-> <<c>> \o rest.text, had_errors |-> rest.had_errors]

Malformed(rest) == [text |-> <<65533>> \o rest.text, had_errors |-> TRUE]

\* UTF-8 decoding: the text, and whether an ill-formed sequence was met.
RECURSIVE Utf8Decode(_)
Utf8Decode(b) ==
    IF b = <<>> THEN [text |-> <<>>, had_errors |-> FALSE]
    ELSE IF Utf8SeqLen(b) = 0 THEN Malformed(Utf8Decode(Tail(b)))
    ELSE Decoded(Utf8Scalar(b, Utf8SeqLen(b)), Utf8Decode(Drop(b, Utf8SeqLen(b))))

is_utf8(content) == ~Utf8Decode(content).had_errors

looks_like_windows1252_or_iso8859_1(content) ==
    \/ \E i \in 1..Len(content) : content[i] >= 128 /\ content[i] <= 159
    \/ \E i \in 1..Len(content) : content[i] >= 160 /\ content[i] <= 255

\* Charset names the chardet guesser can answer with (after charset2encoding):
\* two of the single-byte Western family and one no codec here knows.
ChardetLabels == {"windows-1252", "ISO-8859-1", "EUC-TW"}

\* detect_encoding with the UTF-8 test made before the ASCII test.
detect_encoding_bytes_utf8_first(content, chardet) ==
    IF content = <<>> THEN FileEncoding("empty file", None)
    ELSE IF IsSome(detect_bom(content))
        THEN FileEncoding(Unwrap(detect_bom(content)).bom_type, Unwrap(detect_bom(content)).bom_type)
    ELSE IF is_utf8(content) THEN FileEncoding("UTF-8", None)
    ELSE IF is_ascii(content) THEN FileEncoding("ASCII", None)
    ELSE IF chardet \in {"ISO-8859-1", "windows-1252"}
            /\ looks_like_windows1252_or_iso8859_1(content)
        THEN FileEncoding(
               IF \E i \in 1..Len(content) : content[i] >= 128 /\ content[i] <= 159
               THEN "windows-1252" ELSE "ISO-8859-1", None)
    ELSE FileEncoding(chardet, None)

\* detect_encoding on a readable file with the given content; chardet is the
\* guesser's answer, consulted only when the content is neither ASCII nor UTF-8.
detect_encoding_bytes(content, chardet) ==
    IF content = <<>> THEN FileEncoding("empty file", None)
    ELSE IF IsSome(detect_bom(content))
        THEN FileEncoding(Unwrap(detect_bom(content)).bom_type, Unwrap(detect_bom(content)).bom_type)
    ELSE LET content_without_bom ==
                 IF IsSome(detect_bom(content))
                 THEN Drop(content, Unwrap(detect_bom(content)).skip_bytes)
                 ELSE content
         IN  IF is_ascii(content_without_bom) THEN FileEncoding("ASCII", None)
             ELSE IF is_utf8(content_without_bom) THEN FileEncoding("UTF-8", None)
             ELSE IF /\ chardet \in {"ISO-8859-1", "windows-1252"}
                     /\ looks_like_windows1252_or_iso8859_1(content_without_bom)
                 THEN FileEncoding(
                        IF \E i \in 1..Len(content_without_bom) :
                               content_without_bom[i] >= 128 /\ content_without_bom[i] <= 159
                        THEN "windows-1252" ELSE "ISO-8859-1", None)
             ELSE FileEncoding(chardet, None)

\* detect_encoding(path): fs::read fails for a path that is no readable file.
detect_encoding(files, path, chardet) ==
    IF path \in DOMAIN files
    THEN detect_encoding_bytes(files[path], chardet)
    ELSE FileEncoding("binary/unreadable", None)

(***************************************************************************)
(* The codecs of encoding_rs that conversion.rs and safety.rs use.         *)
(***************************************************************************)
RECURSIVE Utf8Encode(_)
Utf8Encode(text) ==
    IF text = <<>> THEN <<>>
    ELSE LET c == Head(text)
             one == IF c < 128 THEN <<c>>
                    ELSE IF c < 2048 THEN <<192 + (c \div 64), 128 + (c % 64)>>
                    ELSE IF c < 65536
                        THEN <<224 + (c \div 4096), 128 + ((c \div 64) % 64), 128 + (c % 64)>>
                    ELSE <<240 + (c \div 262144), 128 + ((c \div 4096) % 64),
                           128 + ((c \div 64) % 64), 128 + (c % 64)>>
         IN  one \o Utf8Encode(Tail(text))

\* windows-1252: the scalar values of the bytes 0x80..0x9F (index 1 is 0x80).
Windows1252High ==
    <<8364, 129, 8218, 402, 8222, 8230, 8224, 8225, 710, 8240, 352, 8249, 338, 141, 381, 143,
      144, 8216, 8217, 8220, 8221, 8226, 8211, 8212, 732, 8482, 353, 8250, 339, 157, 382, 376>>

Windows1252Decode(b) ==
    [text |-> [i \in 1..Len(b) |->
                  IF b[i] >= 128 /\ b[i] <= 159 THEN Windows1252High[b[i] - 127] ELSE b[i]],
     had_errors |-> FALSE]

Windows1252Mappable(c) ==
    \/ c < 128
    \/ c >= 160 /\ c <= 255
    \/ \E i \in 1..32 : Windows1252High[i] = c

Windows1252Byte(c) ==
    IF c < 128 \/ (c >= 160 /\ c <= 255) THEN c
    ELSE 127 + (CHOOSE i \in 1..32 : Windows1252High[i] = c)

RECURSIVE DecimalDigits(_)
DecimalDigits(n) == IF n < 10 THEN <<48 + n>> ELSE DecimalDigits(n \div 10) \o <<48 + (n % 10)>>

\* An unmappable character is written as the numeric character reference &#N;
\* and reported through had_errors.
Windows1252Encode(text) ==
    [bytes |-> Flatten([i \in 1..Len(text) |->
                  IF Windows1252Mappable(text[i]) THEN <<Windows1252Byte(text[i])>>
                  ELSE <<38, 35>> \o DecimalDigits(text[i]) \o <<59>>]),
     had_errors |-> \E i \in 1..Len(text) : ~Windows1252Mappable(text[i])]

\* UTF-16 decoding of 16-bit units: surrogate pairs combine, an unpaired
\* surrogate is an error.
RECURSIVE Utf16UnitsDecode(_)
Utf16UnitsDecode(u) ==
    IF u = <<>> THEN [text |-> <<>>, had_errors |-> FALSE]
    ELSE IF u[1] >= 55296 /\ u[1] <= 56319 /\ Len(u) >= 2 /\ u[2] >= 56320 /\ u[2] <= 57343
        THEN Decoded(65536 + (u[1] - 55296) * 1024 + (u[2] - 56320), Utf16UnitsDecode(Drop(u, 2)))
    ELSE IF u[1] >= 55296 /\ u[1] <= 57343 THEN Malformed(Utf16UnitsDecode(Tail(u)))
    ELSE Decoded(u[1], Utf16UnitsDecode(Tail(u)))

Utf16Units(b, little) ==
    [i \in 1..(Len(b) \div 2) |->
        IF little THEN b[2 * i - 1] + 256 * b[2 * i] ELSE 256 * b[2 * i - 1] + b[2 * i]]

\* A trailing odd byte is an error.
Utf16Trailing(b, r) ==
    IF Len(b) % 2 = 1 THEN [text |-> r.text \o <<65533>>, had_errors |-> TRUE] ELSE r

\* UTF-16 decoding of bytes.
Utf16Decode(b, little) == Utf16Trailing(b, Utf16UnitsDecode(Utf16Units(b, little)))

\* Encoding::decode_without_bom_handling
decode_without_bom_handling(enc, b) ==
    IF enc = "UTF_8" THEN Utf8Decode(b)
    ELSE IF enc = "UTF_16LE" THEN Utf16Decode(b, TRUE)
    ELSE IF enc = "UTF_16BE" THEN Utf16Decode(b, FALSE)
    ELSE Windows1252Decode(b)

\* A decode that looks for no marker: the stream is decoded as enc from its
\* first byte.
BomSniff_no_sniffing(enc, b) == [encoding |-> enc, length |-> 0]

\* Encoding::decode: a leading UTF-8, UTF-16LE or UTF-16BE marker selects that
\* encoding instead of enc and is removed from the stream.
BomSniff(enc, b) ==
    IF StartsWith(b, <<239, 187, 191>>) THEN [encoding |-> "UTF_8", length |-> 3]
    ELSE IF StartsWith(b, <<255, 254>>) THEN [encoding |-> "UTF_16LE", length |-> 2]
    ELSE IF StartsWith(b, <<254, 255>>) THEN [encoding |-> "UTF_16BE", length |-> 2]
    ELSE [encoding |-> enc, length |-> 0]

decode(enc, b) ==
    decode_without_bom_handling(BomSniff(enc, b).encoding, Drop(b, BomSniff(enc, b).length))

\* Encoding::encode: the output encoding of UTF-16LE and UTF-16BE is UTF-8.
encode(enc, text) ==
    IF enc = "WINDOWS_1252" THEN Windows1252Encode(text)
    ELSE [bytes |-> Utf8Encode(text), had_errors |-> FALSE]

(***************************************************************************)
(* conversion.rs                                                           *)
(***************************************************************************)
LineEnding == {"Unix", "Windows", "Keep"}

\* str::replace: the non-overlapping matches of pat, left to right.
RECURSIVE replace(_, _, _)
replace(text, pat, with) ==
    IF text = <<>> THEN <<>>
    ELSE IF StartsWith(text, pat) THEN with \o replace(Drop(text, Len(pat)), pat, with)
    ELSE <<Head(text)>> \o replace(Tail(text), pat, with)

\* convert_to_unix_endings with the two replacements in the other order: the
\* CR of a CRLF pair becomes an LF of its own.
convert_to_unix_endings_cr_first(text) ==
    LET text1 == replace(text, <<13>>, <<10>>)
    IN  replace(text1, <<13, 10>>, <<10>>)

convert_to_unix_endings(text) ==
    LET text1 == replace(text, <<13, 10>>, <<10>>)
    IN  replace(text1, <<13>>, <<10>>)

\* convert_to_windows_endings without the pass through Unix endings: the LF of
\* a CRLF pair gets a second CR.
convert_to_windows_endings_no_unix_pass(text) ==
    replace(text, <<10>>, <<13, 10>>)

convert_to_windows_endings(text) ==
    LET unix_text == convert_to_unix_endings(text)
    IN  replace(unix_text, <<10>>, <<13, 10>>)

\* The `match line_ending` of convert.
apply_line_ending(text, line_ending) ==
    IF line_ending = "Keep" THEN text
    ELSE IF line_ending = "Unix" THEN convert_to_unix_endings(text)
    ELSE convert_to_windows_endings(text)

\* str::to_uppercase on the encoding names that occur.
to_uppercase(name) ==
    CASE name = "utf-8" -> "UTF-8"
      [] name = "utf-8-bom" -> "UTF-8-BOM"
      [] name = "utf-16le" -> "UTF-16LE"
      [] name = "utf-16be" -> "UTF-16BE"
      [] name = "windows-1252" -> "WINDOWS-1252"
      [] name = "iso-8859-1" -> "ISO-8859-1"
      [] name = "ascii" -> "ASCII"
      [] name = "utf-7" -> "UTF-7"
      [] name = "empty file" -> "EMPTY FILE"
      [] name = "binary/unreadable" -> "BINARY/UNREADABLE"
      [] OTHER -> name

get_encoding(name) ==
    LET upper == to_uppercase(name)
    IN  IF upper \in {"UTF-8", "UTF-8-BOM"} THEN Ok("UTF_8")
        ELSE IF upper = "UTF-16LE" THEN Ok("UTF_16LE")
        ELSE IF upper = "UTF-16BE" THEN Ok("UTF_16BE")
        ELSE IF upper = "WINDOWS-1252" THEN Ok("WINDOWS_1252")
        ELSE IF upper = "ISO-8859-1" THEN Ok("WINDOWS_1252")
        ELSE IF upper = "ASCII" THEN Ok("UTF_8")
        ELSE Err("UnsupportedEncoding")

get_codecs(from, to) ==
    LET source_enc == get_encoding(from.encoding)
        target_enc == get_encoding(to)
    IN  IF ~source_enc.ok THEN source_enc
        ELSE IF ~target_enc.ok THEN target_enc
        ELSE Ok([decoder |-> source_enc.val, encoder |-> target_enc.val])

get_bom(encoding) ==
    LET upper == to_uppercase(encoding)
    IN  IF upper = "UTF-8-BOM" THEN <<239, 187, 191>>
        ELSE IF upper = "UTF-16LE" THEN <<255, 254>>
        ELSE IF upper = "UTF-16BE" THEN <<254, 255>>
        ELSE <<>>

\* The `to == "UTF-8-BOM" || to == "UTF-16LE" || to == "UTF-16BE"` test of convert.
NeedsBom(to) == to = "UTF-8-BOM" \/ to = "UTF-16LE" \/ to = "UTF-16BE"

\* convert, from the encoder's output on: the error check and the marker.
convert_result(encoded, to) ==
    IF encoded.had_errors THEN Err("EncodingError")
    ELSE Ok((IF NeedsBom(to) THEN get_bom(to) ELSE <<>>) \o encoded.bytes)

\* convert, from the decoder's output on: the error check, the line endings
\* and the encoding.
convert_decoded(decoded, encoder, to, line_ending) ==
    IF decoded.had_errors THEN Err("EncodingError")
    ELSE convert_result(encode(encoder, apply_line_ending(decoded.text, line_ending)), to)

convert(input, from, to, line_ending) ==
    IF ~get_codecs(from, to).ok THEN Err("UnsupportedEncoding")
    ELSE convert_decoded(decode(get_codecs(from, to).val.decoder, input),
                         get_codecs(from, to).val.encoder, to, line_ending)

\* convert_file, from the result of convert on: the write of the output file.
write_output(files, output_path, output) ==
    IF ~output.ok THEN [result |-> output, fs |-> files]
    ELSE [result |-> Ok("unit"), fs |-> WriteFile(files, output_path, output.val)]

\* convert_file on the file system files: the result and the file system after.
\* io_ok is whether the operating system lets the source be opened and read.
convert_file(files, input_path, output_path, from, to, line_ending, io_ok) ==
    IF input_path \notin DOMAIN files \/ ~io_ok
    THEN [result |-> Err("IoError"), fs |-> files]
    ELSE write_output(files, output_path, convert(files[input_path], from, to, line_ending))

(***************************************************************************)
(* safety.rs                                                               *)
(***************************************************************************)
\* ConversionSafety::new: the backup root is a timestamped directory under the
\* output directory, made only when backups are on.
ConversionSafety(input_dir, output_dir, create_backup) ==
    [backup_dir |-> IF create_backup THEN Some(join(output_dir, <<"backup_TS">>)) ELSE NoneOpt,
     log_file |-> join(output_dir, <<"conversion_log_TS.txt">>),
     input_dir |-> input_dir,
     create_backup |-> create_backup]

\* create_backup with its first test inverted: no backup is taken when
\* backups are on.
create_backup_inverted(safety, files, file_path, io_ok) ==
    IF safety.create_backup THEN [result |-> Ok(NoneOpt), fs |-> files]
    ELSE IF ~strip_prefix(file_path, safety.input_dir).ok
        THEN [result |-> Err("BackupFailed"), fs |-> files]
    ELSE IF ~IsSome(safety.backup_dir)
        THEN [result |-> Err("BackupFailed"), fs |-> files]
    ELSE [result |-> Ok(Some(join(Unwrap(safety.backup_dir),
                                  strip_prefix(file_path, safety.input_dir).val))),
          fs |-> files]

\* create_backup: the result (an Option of the backup's path) and the file
\* system after. io_ok is whether fs::copy succeeds.
create_backup(safety, files, file_path, io_ok) ==
    IF ~safety.create_backup THEN [result |-> Ok(NoneOpt), fs |-> files]
    ELSE IF ~strip_prefix(file_path, safety.input_dir).ok
        THEN [result |-> Err("BackupFailed"), fs |-> files]
    ELSE IF ~IsSome(safety.backup_dir)
        THEN [result |-> Err("BackupFailed"), fs |-> files]
    ELSE LET rel_path == strip_prefix(file_path, safety.input_dir).val
             backup == join(Unwrap(safety.backup_dir), rel_path)
         IN  IF file_path \notin DOMAIN files \/ ~io_ok
             THEN [result |-> Err("IoError"), fs |-> files]
             ELSE [result |-> Ok(Some(backup)), fs |-> WriteFile(files, backup, files[file_path])]

\* Encoding::for_label on the labels detection reports (labels are matched
\* without regard to case; "ascii" and "iso-8859-1" are labels of windows-1252).
for_label(label) ==
    IF label = "UTF-8" THEN Some("UTF_8")
    ELSE IF label \in {"ASCII", "windows-1252", "ISO-8859-1"} THEN Some("WINDOWS_1252")
    ELSE IF label = "UTF-16LE" THEN Some("UTF_16LE")
    ELSE IF label = "UTF-16BE" THEN Some("UTF_16BE")
    ELSE NoneOpt

\* char::is_control (category Cc) and char::is_whitespace (White_Space).
is_control(c) == c <= 31 \/ (c >= 127 /\ c <= 159)

is_whitespace(c) ==
    \/ c >= 9 /\ c <= 13
    \/ c \in {32, 133, 160, 5760, 8232, 8233, 8239, 8287, 12288}
    \/ c >= 8192 /\ c <= 8202

\* check_decoded without the look at the decoded characters.
check_decoded_errors_only(decoded) ==
    IF decoded.had_errors THEN Err("VerificationFailed")
    ELSE Ok("unit")

\* verify_file_readability, from the decoder's output on.
check_decoded(decoded) ==
    IF decoded.had_errors THEN Err("VerificationFailed")
    ELSE IF ~(\A i \in 1..Len(decoded.text) :
                 ~is_control(decoded.text[i]) \/ is_whitespace(decoded.text[i]))
        THEN Err("VerificationFailed")
    ELSE Ok("unit")

verify_file_readability(files, path, encoding) ==
    IF path \notin DOMAIN files THEN Err("IoError")
    ELSE IF ~IsSome(for_label(encoding.encoding)) THEN Err("VerificationFailed")
    ELSE check_decoded(
            decode_without_bom_handling(Unwrap(for_label(encoding.encoding)), files[path]))

\* verify_conversion; chardet is the guesser's answer during re-detection.
verify_conversion(files, original, converted, chardet) ==
    IF converted \notin DOMAIN files THEN Err("IoError")
    ELSE IF files[converted] = <<>> THEN Err("VerificationFailed")
    ELSE verify_file_readability(files, converted, detect_encoding(files, converted, chardet))

\* rollback: the result and the file system after. io_ok is whether fs::copy
\* succeeds.
rollback(safety, files, original, backup, io_ok) ==
    IF ~safety.create_backup THEN [result |-> Ok("unit"), fs |-> files]
    ELSE IF backup \notin DOMAIN files \/ ~io_ok
        THEN [result |-> Err("RollbackFailed"), fs |-> files]
    ELSE [result |-> Ok("unit"), fs |-> WriteFile(files, original, files[backup])]

(***************************************************************************)
(* statistics.rs                                                           *)
(***************************************************************************)
\* Statistics::new. encoding_counts is a function from the FileEncoding
\* values seen so far to their counts.
Statistics_new ==
    [total_files |-> 0, encoding_counts |-> [e \in {} |-> 0], files |-> <<>>]

\* The count of encoding in a HashMap, 0 when it has no entry.
CountOf(encoding_counts, encoding) ==
    IF encoding \in DOMAIN encoding_counts THEN encoding_counts[encoding] ELSE 0

\* add_file that inserts a count of 1 for the encoding instead of raising
\* the entry's count.
add_file_insert_one(self, path, name, encoding) ==
    [total_files |-> self.total_files + 1,
     encoding_counts |->
        [e \in DOMAIN self.encoding_counts \cup {encoding} |->
            IF e = encoding THEN 1 ELSE self.encoding_counts[e]],
     files |-> Append(self.files, [path |-> path, name |-> name, encoding |-> encoding])]

add_file(self, path, name, encoding) ==
    [total_files |-> self.total_files + 1,
     encoding_counts |->
        [e \in DOMAIN self.encoding_counts \cup {encoding} |->
            IF e = encoding THEN CountOf(self.encoding_counts, e) + 1
            ELSE self.encoding_counts[e]],
     files |-> Append(self.files, [path |-> path, name |-> name, encoding |-> encoding])]

\* The orders generate_report's sorted entries can have: every entry of the
\* HashMap once, counts descending; the HashMap's iteration order decides
\* between equal counts.
SortedEntries(self) ==
    {entries \in [1..Cardinality(DOMAIN self.encoding_counts) -> DOMAIN self.encoding_counts] :
        /\ \A i, j \in DOMAIN entries : i # j => entries[i] # entries[j]
        /\ \A i, j \in DOMAIN entries :
              i < j => self.encoding_counts[entries[i]] >= self.encoding_counts[entries[j]]}

\* generate_report for one order of the entries. percentage is the quotient
\* count / total_files * 100.0, kept as the fraction <<100 * count, total_files>>.
generate_report(self, entries) ==
    [total_files |-> self.total_files,
     files |-> self.files,
     encoding_stats |->
        [i \in DOMAIN entries |->
            [encoding |-> entries[i].encoding,
             bom |-> entries[i].bom,
             count |-> self.encoding_counts[entries[i]],
             percentage |-> <<100 * self.encoding_counts[entries[i]], self.total_files>>]]]

(***************************************************************************)
(* main.rs: the run over an input tree. The extension filter is off, so    *)
(* every file of the tree is scanned.                                      *)
(***************************************************************************)
InputRoot == <<"d">>

CandidatePaths ==
    {<<"d", "a">>, <<"d", "b">>, <<"d", "sub", "a">>, <<"d", "converted", "a">>}

\* File contents: "a", the control character U+0001, the empty file, "é".
BatchContents == {<<97>>, <<1>>, <<>>, <<195, 169>>}

OutputDirArgs == {NoneOpt, Some(<<"d">>), Some(<<"o">>)}

BatchTargets == {"UTF-8", "WINDOWS-1252", "UTF-7"}

InitialTrees ==
    UNION {[P -> BatchContents] : P \in {Q \in SUBSET CandidatePaths : Cardinality(Q) <= MaxFiles}}

ArgsSet ==
    [path : {InputRoot},
     convert_to : {NoneOpt} \cup {Some(t) : t \in BatchTargets},
     line_ending : {"Unix"},      \* the default of --line-ending
     create_backup : BOOLEAN,
     output_dir : OutputDirArgs,
     skip_verification : BOOLEAN]

\* main: the output directory is the one given, or <path>/converted.
output_dir == IF IsSome(args.output_dir) THEN Unwrap(args.output_dir)
              ELSE join(args.path, <<"converted">>)

safety == ConversionSafety(args.path, output_dir, args.create_backup)

Init ==
    /\ fs \in InitialTrees
    /\ orig = fs
    /\ args \in ArgsSet
    /\ stats = <<>>
    /\ toScan = DOMAIN fs
    /\ pc = "scan"
    /\ idx = 1
    /\ backup_path = NoneOpt
    /\ st = <<>>
    /\ effects = {}
    /\ call = [op |-> "main"]
    /\ ret = NoneOpt

\* scan_directory visits one more file (read_dir gives no order) and
\* Statistics::add_file records it.
ScanFile ==
    /\ pc = "scan"
    /\ \E path \in toScan, chardet \in ChardetLabels :
          /\ stats' = Append(stats, [path |-> path, name |-> file_name(path),
                                     encoding |-> detect_encoding(fs, path, chardet)])
          /\ toScan' = toScan \ {path}
    /\ st' = Append(st, "Pending")
    /\ UNCHANGED <<fs, orig, args, pc, idx, backup_path, effects, call, ret>>

\* main after the scan: without --convert-to the run ends; otherwise
\* ConversionSafety::new and the start of convert_files.
StartConversion ==
    /\ pc = "scan"
    /\ toScan = {}
    /\ pc' = IF ~IsSome(args.convert_to) THEN "exit"
             ELSE IF stats = <<>> THEN "done"
             ELSE "backup"
    /\ UNCHANGED <<fs, orig, args, stats, toScan, idx, backup_path, st, effects, call, ret>>

\* The end of one iteration of the loop of convert_files.
NextFile == IF idx + 1 > Len(stats) THEN "done" ELSE "backup"

\* convert_files: `let backup_path = safety.create_backup(path)?`
CreateBackup ==
    /\ pc = "backup"
    /\ \E io_ok \in BOOLEAN :
          \E r \in {create_backup(safety, fs, stats[idx].path, io_ok)} :
              /\ fs' = r.fs
              /\ IF r.result.ok
                 THEN /\ backup_path' = r.result.val
                      /\ pc' = "convert"
                      /\ st' = IF IsSome(r.result.val) THEN [st EXCEPT ![idx] = "BackedUp"] ELSE st
                      /\ effects' = effects \cup
                            (IF IsSome(r.result.val)
                             THEN {[op |-> "backup", idx |-> idx, path |-> Unwrap(r.result.val)]}
                             ELSE {[op |-> "no_backup", idx |-> idx, path |-> stats[idx].path]})
                 ELSE /\ backup_path' = NoneOpt
                      /\ pc' = "aborted"
                      /\ st' = st
                      /\ effects' = effects \cup
                            {[op |-> "backup_failed", idx |-> idx, path |-> stats[idx].path]}
    /\ UNCHANGED <<orig, args, stats, toScan, idx, call, ret>>

\* convert_files: `match EncodingConverter::convert_file(...)`
ConvertFile ==
    /\ pc = "convert"
    /\ \E io_ok \in BOOLEAN :
          \E output_path \in {join(output_dir, <<stats[idx].name>>)} :
          \E r \in {convert_file(fs, stats[idx].path, output_path, stats[idx].encoding,
                                 Unwrap(args.convert_to), args.line_ending, io_ok)} :
              /\ fs' = r.fs
              /\ effects' = effects \cup
                    (IF io_ok THEN {[op |-> "read", idx |-> idx, path |-> stats[idx].path]} ELSE {})
                    \cup {[op |-> "convert", idx |-> idx, path |-> stats[idx].path]}
                    \cup (IF r.result.ok
                          THEN {[op |-> "write", idx |-> idx, path |-> output_path]} ELSE {})
              /\ IF r.result.ok
                 THEN /\ st' = [st EXCEPT ![idx] = "Converted"]
                      /\ IF ~args.skip_verification
                         THEN pc' = "verify" /\ idx' = idx /\ backup_path' = backup_path
                         ELSE pc' = NextFile /\ idx' = idx + 1 /\ backup_path' = NoneOpt
                 ELSE /\ st' = [st EXCEPT ![idx] = "ConversionFailed"]
                      /\ IF IsSome(backup_path)
                         THEN pc' = "rollback" /\ idx' = idx /\ backup_path' = backup_path
                         ELSE pc' = NextFile /\ idx' = idx + 1 /\ backup_path' = NoneOpt
    /\ UNCHANGED <<orig, args, stats, toScan, call, ret>>

\* convert_files: `if let Err(e) = safety.verify_conversion(path, &output_path)`
VerifyConversion ==
    /\ pc = "verify"
    /\ \E chardet \in ChardetLabels :
          \E r \in {verify_conversion(fs, stats[idx].path,
                                      join(output_dir, <<stats[idx].name>>), chardet)} :
              IF r.ok
              THEN /\ st' = [st EXCEPT ![idx] = "Verified"]
                   /\ effects' = effects \cup
                         {[op |-> "verified", idx |-> idx, path |-> stats[idx].path]}
                   /\ pc' = NextFile /\ idx' = idx + 1 /\ backup_path' = NoneOpt
              ELSE /\ st' = [st EXCEPT ![idx] = "VerificationFailed"]
                   /\ effects' = effects \cup
                         {[op |-> "verify_failed", idx |-> idx, path |-> stats[idx].path]}
                   /\ IF IsSome(backup_path)
                      THEN pc' = "rollback" /\ idx' = idx /\ backup_path' = backup_path
                      ELSE pc' = NextFile /\ idx' = idx + 1 /\ backup_path' = NoneOpt
    /\ UNCHANGED <<fs, orig, args, stats, toScan, call, ret>>

\* convert_files: `safety.rollback(path, &backup)?`
Rollback ==
    /\ pc = "rollback"
    /\ \E io_ok \in BOOLEAN :
          \E r \in {rollback(safety, fs, stats[idx].path, Unwrap(backup_path), io_ok)} :
              /\ fs' = r.fs
              /\ IF r.result.ok
                 THEN /\ st' = [st EXCEPT ![idx] = "RolledBack"]
                      /\ effects' = effects \cup
                            {[op |-> "rollback", idx |-> idx, path |-> stats[idx].path]}
                      /\ pc' = NextFile /\ idx' = idx + 1 /\ backup_path' = NoneOpt
                 ELSE /\ st' = st
                      /\ effects' = effects \cup
                            {[op |-> "rollback_failed", idx |-> idx, path |-> stats[idx].path]}
                      /\ pc' = "aborted" /\ idx' = idx /\ backup_path' = backup_path
    /\ UNCHANGED <<orig, args, stats, toScan, call, ret>>

Next ==
    \/ ScanFile
    \/ StartConversion
    \/ CreateBackup
    \/ ConvertFile
    \/ VerifyConversion
    \/ Rollback

Spec == Init /\ [][Next]_vars

(***************************************************************************)
(* detect_encoding alone, on one file of any content up to MaxDetectLen    *)
(* bytes, or on a path that cannot be read.                                *)
(***************************************************************************)
\* NUL, "A", a lone continuation byte, the lead byte of a two-byte sequence
\* and the bytes the markers are made of.
DetectBytes == {0, 65, 128, 195, 187, 191, 239, 254, 255}

ProbePath == <<"d", "f">>

\* Every variable of the batch run, at rest.
NoBatch ==
    /\ args = [path |-> InputRoot]
    /\ stats = <<>>
    /\ toScan = {}
    /\ pc = "call"
    /\ idx = 1
    /\ backup_path = NoneOpt
    /\ st = <<>>
    /\ effects = {}

InitDetect ==
    /\ fs \in {NoFiles} \cup {[p \in {ProbePath} |-> c] : c \in SeqsUpTo(DetectBytes, MaxDetectLen)}
    /\ orig = fs
    /\ call \in [op : {"detect_encoding"}, path : {ProbePath}, chardet : ChardetLabels]
    /\ ret = NoneOpt
    /\ NoBatch

DetectEncoding ==
    /\ call.op = "detect_encoding"
    /\ ret = NoneOpt
    /\ ret' = Some(detect_encoding(fs, call.path, call.chardet))
    /\ UNCHANGED <<fs, orig, args, stats, toScan, pc, idx, backup_path, st, effects, call>>

NextDetect == DetectEncoding

SpecDetect == InitDetect /\ [][NextDetect]_vars

(***************************************************************************)
(* The line-ending step of convert alone, on any text over CR, LF and "a"  *)
(* up to MaxTextLen characters, and on the mixed text "a\r\nb\rc\n".       *)
(***************************************************************************)
LineEndingChars == {13, 10, 97}

MixedText == <<97, 13, 10, 98, 13, 99, 10>>

InitLineEnding ==
    /\ fs = NoFiles
    /\ orig = fs
    /\ call \in [op : {"line_ending"},
                 text : SeqsUpTo(LineEndingChars, MaxTextLen) \cup {MixedText},
                 line_ending : LineEnding]
    /\ ret = NoneOpt
    /\ NoBatch

ApplyLineEnding ==
    /\ call.op = "line_ending"
    /\ ret = NoneOpt
    /\ ret' = Some(apply_line_ending(call.text, call.line_ending))
    /\ UNCHANGED <<fs, orig, args, stats, toScan, pc, idx, backup_path, st, effects, call>>

\* The same step applied to its own result.
ReapplyLineEnding ==
    /\ call.op = "line_ending"
    /\ IsSome(ret)
    /\ call' = [op |-> "line_ending_again", text |-> Unwrap(ret),
                line_ending |-> call.line_ending]
    /\ ret' = Some(apply_line_ending(Unwrap(ret), call.line_ending))
    /\ UNCHANGED <<fs, orig, args, stats, toScan, pc, idx, backup_path, st, effects>>

NextLineEnding == ApplyLineEnding \/ ReapplyLineEnding

SpecLineEnding == InitLineEnding /\ [][NextLineEnding]_vars

(***************************************************************************)
(* convert_file alone: one source file, made of up to MaxChunks of the     *)
(* byte groups below, converted from any declared encoding to any target.  *)
(***************************************************************************)
\* "a", CR, LF, "é" and "Ā" in UTF-8, the UTF-8 and UTF-16LE markers, and
\* "é" in windows-1252.
ConvertChunks ==
    {<<97>>, <<13>>, <<10>>, <<195, 169>>, <<196, 128>>, <<239, 187, 191>>, <<255, 254>>, <<233>>}

ConvertInputs == {Flatten(cs) : cs \in SeqsUpTo(ConvertChunks, MaxChunks)}

ConvertSources ==
    {FileEncoding("UTF-8", None), FileEncoding("ASCII", None), FileEncoding("windows-1252", None),
     FileEncoding("UTF-16LE", "UTF-16LE"), FileEncoding("empty file", None)}

ConvertTargets ==
    {"UTF-8", "UTF-8-BOM", "utf-8-bom", "UTF-16LE", "UTF-16BE", "WINDOWS-1252", "ISO-8859-1",
     "ASCII", "UTF-7"}

SourcePath == <<"d", "f">>
DestPath == <<"o", "f">>

InitConvert ==
    /\ fs \in {[p \in {SourcePath} |-> c] : c \in ConvertInputs}
    /\ orig = fs
    /\ call \in [op : {"convert_file"}, input_path : {SourcePath}, output_path : {DestPath},
                 from : ConvertSources, to : ConvertTargets, line_ending : LineEnding]
    /\ ret = NoneOpt
    /\ NoBatch

ConvertFileCall ==
    /\ call.op = "convert_file"
    /\ ret = NoneOpt
    /\ \E r \in {convert_file(fs, call.input_path, call.output_path, call.from, call.to,
                              call.line_ending, TRUE)} :
          /\ ret' = Some(r.result)
          /\ fs' = r.fs
    /\ UNCHANGED <<orig, args, stats, toScan, pc, idx, backup_path, st, effects, call>>

NextConvert == ConvertFileCall

SpecConvert == InitConvert /\ [][NextConvert]_vars

(***************************************************************************)
(* Statistics alone: up to MaxAdds add_file calls, a report at any point.  *)
(* call.calls is the history of the calls made.                            *)
(***************************************************************************)
StatPaths == {<<"d", "a">>, <<"d", "sub", "a">>}

StatEncodings ==
    {FileEncoding("UTF-8", "UTF-8"), FileEncoding("UTF-8", None), FileEncoding("ASCII", None)}

InitStatistics ==
    /\ fs = NoFiles
    /\ orig = fs
    /\ args = [path |-> InputRoot]
    /\ stats = Statistics_new
    /\ toScan = {}
    /\ pc = "call"
    /\ idx = 1
    /\ backup_path = NoneOpt
    /\ st = <<>>
    /\ effects = {}
    /\ call = [op |-> "statistics", calls |-> <<>>]
    /\ ret = NoneOpt

AddFile ==
    /\ call.op = "statistics"
    /\ Len(call.calls) < MaxAdds
    /\ \E path \in StatPaths, encoding \in StatEncodings :
          /\ stats' = add_file(stats, path, file_name(path), encoding)
          /\ call' = [call EXCEPT !.calls =
                         Append(@, [path |-> path, name |-> file_name(path),
                                    encoding |-> encoding])]
    /\ ret' = NoneOpt
    /\ UNCHANGED <<fs, orig, args, toScan, pc, idx, backup_path, st, effects>>

GenerateReport ==
    /\ call.op = "statistics"
    /\ ret = NoneOpt
    /\ \E entries \in SortedEntries(stats) : ret' = Some(generate_report(stats, entries))
    /\ UNCHANGED <<fs, orig, args, stats, toScan, pc, idx, backup_path, st, effects, call>>

NextStatistics == AddFile \/ GenerateReport

SpecStatistics == InitStatistics /\ [][NextStatistics]_vars

(***************************************************************************)
(* verify_conversion alone: one call on a converted file made of up to     *)
(* MaxVerifyChunks chunks, or on a converted file that does not exist.     *)
(***************************************************************************)
VerifyChunks ==
    {<<0>>, <<1>>, <<10>>, <<97>>, <<129>>, <<195, 169>>, <<239, 187, 191>>, <<254, 255>>,
     <<255, 254>>}

VerifyInputs == {Flatten(cs) : cs \in SeqsUpTo(VerifyChunks, MaxVerifyChunks)}

InitVerify ==
    /\ fs \in {[p \in {DestPath} |-> c] : c \in VerifyInputs} \cup {NoFiles}
    /\ orig = fs
    /\ call \in [op : {"verify_conversion"}, original : {SourcePath}, converted : {DestPath},
                 chardet : ChardetLabels]
    /\ ret = NoneOpt
    /\ NoBatch

VerifyConversionCall ==
    /\ call.op = "verify_conversion"
    /\ ret = NoneOpt
    /\ ret' = Some(verify_conversion(fs, call.original, call.converted, call.chardet))
    /\ UNCHANGED <<fs, orig, args, stats, toScan, pc, idx, backup_path, st, effects, call>>

NextVerify == VerifyConversionCall

SpecVerify == InitVerify /\ [][NextVerify]_vars

(***************************************************************************)
(* Properties of the batch run (Spec).                                     *)
(***************************************************************************)
BatchEnded == pc \in {"done", "aborted"}

Did(op, i) == \E e \in effects : e.op = op /\ e.idx = i

\* File i met a failure scoped to it: backup, conversion, verification or rollback.
FileFailed(i) ==
    \/ Did("backup_failed", i)
    \/ Did("rollback_failed", i)
    \/ Did("verify_failed", i)
    \/ st[i] = "ConversionFailed"
    \/ (st[i] = "RolledBack" /\ ~Did("verify_failed", i))

\* C1: when the batch has ended, every file that comes after a file that met
\* a backup, conversion, verification or rollback failure has had its
\* conversion attempted: one file's failure never aborts the batch.
C1_FailureNeverAbortsBatch ==
    BatchEnded =>
        \A i \in 1..Len(stats) : \A j \in 1..Len(stats) :
            (i < j /\ FileFailed(i)) => Did("convert", j)

\* The target names the program documents as supported (main.rs, --convert-to).
SupportedTargets ==
    {"UTF-8", "UTF-8-BOM", "UTF-16LE", "UTF-16BE", "WINDOWS-1252", "ISO-8859-1", "ASCII"}

\* C2: with a target name outside the supported set the request fails before
\* any file is processed: no backup is created, no source file is read for
\* conversion and no output file is written.
C2_UnsupportedTargetFailsFast ==
    (IsSome(args.convert_to) /\ Unwrap(args.convert_to) \notin SupportedTargets) =>
        /\ \A e \in effects : e.op \notin {"backup", "read", "write"}
        /\ fs = orig

\* C3: the path a conversion writes to is never the path of an original input
\* file, whatever the output directory, so no original's content is changed by
\* a conversion write.
C3_NeverWritesOriginalPath ==
    \A e \in effects : e.op = "write" => e.path \notin DOMAIN orig

\* C4: with backups on and verification on, when the verification of file i
\* failed and the processing of file i is over (the loop is about to start the
\* next file, or has ended), the content at the original path of file i is the
\* content the file had before the batch started.
C4_VerificationFailureRestoresOriginal ==
    \A i \in 1..Len(stats) :
        (/\ args.create_backup
         /\ ~args.skip_verification
         /\ Did("verify_failed", i)
         /\ idx = i + 1
         /\ pc \in {"backup", "done"})
        => fs[stats[i].path] = orig[stats[i].path]

\* The transitions of the per-file state machine.
AllowedTransitions ==
    {<<"Pending", "BackedUp">>,
     <<"Pending", "Converted">>, <<"BackedUp", "Converted">>,
     <<"Pending", "ConversionFailed">>, <<"BackedUp", "ConversionFailed">>,
     <<"Converted", "Verified">>, <<"Converted", "VerificationFailed">>,
     <<"VerificationFailed", "RolledBack">>, <<"ConversionFailed", "RolledBack">>}

FileStep(i) ==
    st'[i] # st[i] =>
        /\ <<st[i], st'[i]>> \in AllowedTransitions
        /\ st'[i] = "BackedUp" => args.create_backup
        /\ (st[i] = "Pending" /\ st'[i] \in {"Converted", "ConversionFailed"}) => ~args.create_backup
        /\ st'[i] = "RolledBack" => args.create_backup
        /\ \A j \in DOMAIN st \ {i} : st'[j] = st[j]

\* C5: every change of a file's state is a transition of the per-file state
\* machine: Pending to BackedUp only with backups on, and then before the
\* conversion is attempted; Converted to Verified or VerificationFailed; a
\* failure to RolledBack; nothing else. A file is copied back over its original
\* only right after a conversion or verification failure of that same file, and
\* never when backups are off.
C5_PerFileStateMachine ==
    [][/\ \A i \in DOMAIN st : FileStep(i)
       /\ \A e \in effects' \ effects :
             e.op = "rollback" =>
                /\ args.create_backup
                /\ st[e.idx] \in {"VerificationFailed", "ConversionFailed"}
                /\ st'[e.idx] = "RolledBack"
       /\ \A i \in DOMAIN st :
             (st'[i] = "RolledBack" /\ st[i] # "RolledBack") => Did("rollback", i)']_vars

\* C5 witness: one batch in which a file was verified and another was rolled
\* back after its verification failed.
C5_Witness ==
    \E i \in DOMAIN st : \E j \in DOMAIN st :
        /\ st[i] = "Verified"
        /\ st[j] = "RolledBack" /\ Did("verify_failed", j) /\ Did("backup", j)

(***************************************************************************)
(* Properties of convert_file alone (SpecConvert).                         *)
(***************************************************************************)
ConvertDone == call.op = "convert_file" /\ IsSome(ret)

\* The text convert encodes: the source decoded as declared, line endings
\* normalised. Defined when both names resolve.
NormalisedText ==
    apply_line_ending(decode(get_encoding(call.from.encoding).val, orig[SourcePath]).text,
                      call.line_ending)

DecodesCleanly ==
    /\ get_encoding(call.from.encoding).ok
    /\ get_encoding(call.to).ok
    /\ ~decode(get_encoding(call.from.encoding).val, orig[SourcePath]).had_errors

\* The characters the named target encoding can represent.
InRepertoire(target, c) ==
    IF target \in {"UTF-8", "UTF-8-BOM", "UTF-16LE", "UTF-16BE"} THEN TRUE
    ELSE IF target = "WINDOWS-1252" THEN Windows1252Mappable(c)
    ELSE IF target = "ISO-8859-1" THEN c <= 255
    ELSE c <= 127

\* C6: when the decoded text holds a character the target encoding cannot
\* represent, convert fails with EncodingError, nothing is written to the
\* destination path and the source file is unchanged.
C6_UnrepresentableCharacterFails ==
    (/\ ConvertDone
     /\ DecodesCleanly
     /\ \E i \in 1..Len(NormalisedText) : ~InRepertoire(to_uppercase(call.to), NormalisedText[i]))
    => /\ Unwrap(ret) = Err("EncodingError")
       /\ DestPath \notin DOMAIN fs
       /\ fs[SourcePath] = orig[SourcePath]

\* The marker of a target name, letter case disregarded.
MarkerOf(target) ==
    IF to_uppercase(target) = "UTF-8-BOM" THEN <<239, 187, 191>>
    ELSE IF to_uppercase(target) = "UTF-16LE" THEN <<255, 254>>
    ELSE IF to_uppercase(target) = "UTF-16BE" THEN <<254, 255>>
    ELSE <<>>

\* C7: for every accepted target name, in any letter case, a successful
\* conversion's output is the target's marker (EF BB BF, FF FE or FE FF for the
\* three marked variants, nothing for any other target) followed by the
\* encoder's output.
C7_MarkerExactlyForMarkedTargets ==
    (ConvertDone /\ Unwrap(ret).ok)
    => fs[DestPath] =
          MarkerOf(call.to) \o encode(get_encoding(call.to).val, NormalisedText).bytes

(***************************************************************************)
(* Properties of detect_encoding alone (SpecDetect).                       *)
(***************************************************************************)
DetectDone == call.op = "detect_encoding" /\ IsSome(ret)

Readable == ProbePath \in DOMAIN fs

Marked(label) == FileEncoding(label, label)

\* C8: a non-empty content is classified by the first marker pattern it starts
\* with, in the order UTF-8, UTF-16BE, UTF-32LE, UTF-32BE, UTF-16LE, whatever
\* follows the marker; FF FE alone is UTF-16LE and FF FE 00 00 is UTF-32LE.
C8_MarkerScanPriority ==
    (DetectDone /\ Readable /\ fs[ProbePath] # <<>>) =>
        /\ StartsWith(fs[ProbePath], <<239, 187, 191>>) => Unwrap(ret) = Marked("UTF-8")
        /\ StartsWith(fs[ProbePath], <<254, 255>>) => Unwrap(ret) = Marked("UTF-16BE")
        /\ StartsWith(fs[ProbePath], <<255, 254, 0, 0>>) => Unwrap(ret) = Marked("UTF-32LE")
        /\ StartsWith(fs[ProbePath], <<0, 0, 254, 255>>) => Unwrap(ret) = Marked("UTF-32BE")
        /\ (StartsWith(fs[ProbePath], <<255, 254>>) /\ ~StartsWith(fs[ProbePath], <<255, 254, 0, 0>>))
              => Unwrap(ret) = Marked("UTF-16LE")
        /\ fs[ProbePath] = <<255, 254>> => Unwrap(ret) = Marked("UTF-16LE")

\* C8 witness: detection has answered UTF-32LE on a content that starts
\* FF FE 00 00, which also starts with the UTF-16LE marker.
C8_Witness ==
    /\ DetectDone /\ Readable
    /\ StartsWith(fs[ProbePath], <<255, 254, 0, 0>>)
    /\ Unwrap(ret) = Marked("UTF-32LE")

HasMarker(content) ==
    \/ StartsWith(content, <<239, 187, 191>>)
    \/ StartsWith(content, <<254, 255>>)
    \/ StartsWith(content, <<255, 254>>)
    \/ StartsWith(content, <<0, 0, 254, 255>>)

AllBelow128(content) == \A i \in 1..Len(content) : content[i] \in 0..127

\* C9: detection always answers; the empty content is "empty file" without a
\* marker; a non-empty content without a marker is ASCII when all its bytes are
\* in 0..127, otherwise UTF-8 when it is well-formed UTF-8; and a marker is
\* reported only for a content that starts with one.
C9_DetectionWithoutMarker ==
    DetectDone =>
        /\ ~Readable => Unwrap(ret) = FileEncoding("binary/unreadable", None)
        /\ (Readable /\ fs[ProbePath] = <<>>) => Unwrap(ret) = FileEncoding("empty file", None)
        /\ (Readable /\ fs[ProbePath] # <<>> /\ ~HasMarker(fs[ProbePath])) =>
              /\ Unwrap(ret).bom = None
              /\ AllBelow128(fs[ProbePath]) => Unwrap(ret) = FileEncoding("ASCII", None)
              /\ (~AllBelow128(fs[ProbePath]) /\ ~Utf8Decode(fs[ProbePath]).had_errors)
                    => Unwrap(ret) = FileEncoding("UTF-8", None)
        /\ Unwrap(ret).bom # None => (Readable /\ HasMarker(fs[ProbePath]))

\* C9 witness: detection has answered UTF-8 without a marker on a content with
\* a byte above 127.
C9_Witness ==
    /\ DetectDone /\ Readable
    /\ ~AllBelow128(fs[ProbePath])
    /\ Unwrap(ret) = FileEncoding("UTF-8", None)

(***************************************************************************)
(* Properties of the line-ending step (SpecLineEnding).                    *)
(***************************************************************************)
LineEndingDone == call.op = "line_ending" /\ IsSome(ret)

Count(text, c) == Cardinality({i \in 1..Len(text) : text[i] = c})

\* Line breaks of a text: every LF (alone or closing a CRLF pair) and every CR
\* that no LF follows.
LineBreaks(text) ==
    Cardinality({i \in 1..Len(text) :
        \/ text[i] = 10
        \/ text[i] = 13 /\ ~(i < Len(text) /\ text[i + 1] = 10)})

\* One pass over the text: the CR of a CRLF pair is dropped, a lone CR becomes
\* brk, an LF becomes brk.
OneLineBreak(text, brk) ==
    Flatten([i \in 1..Len(text) |->
        IF text[i] = 13 THEN (IF i < Len(text) /\ text[i + 1] = 10 THEN <<>> ELSE brk)
        ELSE IF text[i] = 10 THEN brk
        ELSE <<text[i]>>])

\* C10: Unix puts exactly one LF for every CRLF pair and every lone CR: no CR
\* is left and the number of line breaks is kept. Windows is the Unix result
\* with every LF made CRLF: every LF directly follows exactly one CR and every
\* CR is directly followed by LF. Keep changes nothing. "a\r\nb\rc\n" becomes
\* "a\nb\nc\n" under Unix and "a\r\nb\r\nc\r\n" under Windows.
C10_LineEndingNormalisation ==
    LineEndingDone =>
        /\ call.line_ending = "Unix" =>
              /\ Unwrap(ret) = OneLineBreak(call.text, <<10>>)
              /\ Count(Unwrap(ret), 13) = 0
              /\ Count(Unwrap(ret), 10) = LineBreaks(call.text)
              /\ call.text = MixedText => Unwrap(ret) = <<97, 10, 98, 10, 99, 10>>
        /\ call.line_ending = "Windows" =>
              /\ Unwrap(ret) = OneLineBreak(call.text, <<13, 10>>)
              /\ Count(Unwrap(ret), 10) = LineBreaks(call.text)
              /\ \A i \in 1..Len(Unwrap(ret)) :
                    /\ Unwrap(ret)[i] = 10 =>
                          /\ i > 1 /\ Unwrap(ret)[i - 1] = 13
                          /\ i > 2 => Unwrap(ret)[i - 2] # 13
                    /\ Unwrap(ret)[i] = 13 => (i < Len(Unwrap(ret)) /\ Unwrap(ret)[i + 1] = 10)
              /\ call.text = MixedText =>
                    Unwrap(ret) = <<97, 13, 10, 98, 13, 10, 99, 13, 10>>
        /\ call.line_ending = "Keep" => Unwrap(ret) = call.text

\* C10 witness: the mixed text has been normalised to Windows line endings.
C10_Witness ==
    /\ LineEndingDone
    /\ call.text = MixedText
    /\ call.line_ending = "Windows"
    /\ Unwrap(ret) = <<97, 13, 10, 98, 13, 10, 99, 13, 10>>

\* C11: line-ending normalisation is idempotent. Normalising an already
\* normalised text to Unix, or to Windows, gives that text back, for every
\* text over CR, LF and a letter.
C11_LineEndingIdempotent ==
    (call.op = "line_ending_again" /\ IsSome(ret)) =>
        /\ call.line_ending = "Unix" =>
              /\ Unwrap(ret) = call.text
              /\ convert_to_unix_endings(call.text) = call.text
        /\ call.line_ending = "Windows" =>
              /\ Unwrap(ret) = call.text
              /\ convert_to_windows_endings(call.text) = call.text

\* C11 witness: the Windows form of the mixed text has been normalised to
\* Windows line endings a second time.
C11_Witness ==
    /\ call.op = "line_ending_again"
    /\ IsSome(ret)
    /\ call.line_ending = "Windows"
    /\ call.text = <<97, 13, 10, 98, 13, 10, 99, 13, 10>>
    /\ Unwrap(ret) = call.text

(***************************************************************************)
(* Further properties of convert_file (SpecConvert).                       *)
(***************************************************************************)
\* C12: a valid UTF-8 byte sequence declared as UTF-8 and converted to target
\* UTF-8 with the Keep policy succeeds, and the output is the input byte for
\* byte, less one leading EF BB BF when the input starts with it; no marker is
\* added.
C12_Utf8RoundTrip ==
    (/\ ConvertDone
     /\ call.from.encoding = "UTF-8"
     /\ call.to = "UTF-8"
     /\ call.line_ending = "Keep"
     /\ is_utf8(orig[SourcePath]))
    => /\ Unwrap(ret) = Ok("unit")
       /\ DestPath \in DOMAIN fs
       /\ fs[DestPath] = IF StartsWith(orig[SourcePath], <<239, 187, 191>>)
                         THEN Drop(orig[SourcePath], 3)
                         ELSE orig[SourcePath]
       /\ fs[SourcePath] = orig[SourcePath]

\* C12 witness: a marked UTF-8 file with a two-byte character has been
\* converted to UTF-8 with Keep.
C12_Witness ==
    /\ ConvertDone
    /\ call.from = FileEncoding("UTF-8", None)
    /\ call.to = "UTF-8"
    /\ call.line_ending = "Keep"
    /\ orig[SourcePath] = <<239, 187, 191, 195, 169>>
    /\ Unwrap(ret).ok
    /\ fs[DestPath] = <<195, 169>>

\* The 16-bit code units of a text: one unit for a character of the basic
\* plane, a surrogate pair for any other.
Utf16CodeUnits(text) ==
    Flatten([i \in 1..Len(text) |->
        IF text[i] < 65536 THEN <<text[i]>>
        ELSE <<55296 + ((text[i] - 65536) \div 1024), 56320 + ((text[i] - 65536) % 1024)>>])

\* The bytes of a text in the named target encoding itself. Defined for a
\* text of characters of the target's repertoire.
EncodedIn(target, text) ==
    IF target \in {"UTF-8", "UTF-8-BOM"} THEN Utf8Encode(text)
    ELSE IF target = "UTF-16LE"
    THEN Flatten([i \in 1..Len(Utf16CodeUnits(text)) |->
            <<Utf16CodeUnits(text)[i] % 256, Utf16CodeUnits(text)[i] \div 256>>])
    ELSE IF target = "UTF-16BE"
    THEN Flatten([i \in 1..Len(Utf16CodeUnits(text)) |->
            <<Utf16CodeUnits(text)[i] \div 256, Utf16CodeUnits(text)[i] % 256>>])
    ELSE IF target = "WINDOWS-1252" THEN [i \in 1..Len(text) |-> Windows1252Byte(text[i])]
    ELSE text

\* C13: for every supported target and every successful conversion of a text
\* the target can represent, the bytes after the optional marker are the
\* normalised decoded text in the target encoding itself: for UTF-16LE and
\* UTF-16BE two bytes per 16-bit code unit, low byte first or high byte first,
\* not the UTF-8 bytes of the text.
C13_PayloadInTargetEncoding ==
    (/\ ConvertDone
     /\ Unwrap(ret).ok
     /\ \A i \in 1..Len(NormalisedText) : InRepertoire(to_uppercase(call.to), NormalisedText[i]))
    => \E marker \in {<<>>, MarkerOf(call.to)} :
          fs[DestPath] = marker \o EncodedIn(to_uppercase(call.to), NormalisedText)

(***************************************************************************)
(* Properties of the Statistics (SpecStatistics).                          *)
(***************************************************************************)
\* How many of the calls made so far had this encoding.
CallsWith(encoding) ==
    Cardinality({i \in 1..Len(call.calls) : call.calls[i].encoding = encoding})

RECURSIVE SumOfCounts(_)
SumOfCounts(encoding_stats) ==
    IF encoding_stats = <<>> THEN 0
    ELSE Head(encoding_stats).count + SumOfCounts(Tail(encoding_stats))

\* The aggregator after N calls: N files in call order, one count per
\* (label, marker) value seen, each the number of calls with that value.
StatisticsMatchCalls ==
    /\ stats.total_files = Len(call.calls)
    /\ stats.files = call.calls
    /\ DOMAIN stats.encoding_counts = {call.calls[i].encoding : i \in 1..Len(call.calls)}
    /\ \A e \in StatEncodings : CountOf(stats.encoding_counts, e) = CallsWith(e)

\* The frequency table of a report: one row per value seen, its count the
\* number of calls with that value, the counts summing to N.
ReportMatchesCalls ==
    IsSome(ret) =>
        /\ Unwrap(ret).total_files = Len(call.calls)
        /\ Unwrap(ret).files = call.calls
        /\ SumOfCounts(Unwrap(ret).encoding_stats) = Len(call.calls)
        /\ \A e \in StatEncodings :
              Cardinality({i \in DOMAIN Unwrap(ret).encoding_stats :
                              /\ Unwrap(ret).encoding_stats[i].encoding = e.encoding
                              /\ Unwrap(ret).encoding_stats[i].bom = e.bom
                              /\ Unwrap(ret).encoding_stats[i].count = CallsWith(e)})
                 = IF CallsWith(e) > 0 THEN 1 ELSE 0
        /\ Len(Unwrap(ret).encoding_stats) =
              Cardinality({e \in StatEncodings : CallsWith(e) > 0})

\* A step removes no entry and lowers no count.
OnlyAdds ==
    /\ stats'.total_files >= stats.total_files
    /\ Len(stats'.files) >= Len(stats.files)
    /\ SubSeq(stats'.files, 1, Len(stats.files)) = stats.files
    /\ \A e \in DOMAIN stats.encoding_counts :
          /\ e \in DOMAIN stats'.encoding_counts
          /\ stats'.encoding_counts[e] >= stats.encoding_counts[e]

\* C14: after any sequence of N add_file calls total_files is N, the file
\* list has the N entries in call order, the counts of the frequency table sum
\* to N and the count of each (label, marker) value is the number of calls
\* made with it; add_file never removes or lowers an entry or a count.
C14_StatisticsCountEveryFile ==
    /\ [](StatisticsMatchCalls /\ ReportMatchesCalls)
    /\ [][OnlyAdds]_vars

\* C14 witness: three calls, two with the marked UTF-8 value and one with the
\* unmarked one, and the report made.
C14_Witness ==
    /\ call.op = "statistics"
    /\ Len(call.calls) = 3
    /\ CallsWith(FileEncoding("UTF-8", "UTF-8")) = 2
    /\ CallsWith(FileEncoding("UTF-8", None)) = 1
    /\ call.calls[1].path # call.calls[2].path
    /\ stats.total_files = 3
    /\ IsSome(ret)
    /\ Unwrap(ret).encoding_stats[1].count = 2
    /\ Unwrap(ret).encoding_stats[2].count = 1

(***************************************************************************)
(* Properties of verify_conversion alone (SpecVerify).                     *)
(***************************************************************************)
VerifyDone == call.op = "verify_conversion" /\ IsSome(ret) /\ DestPath \in DOMAIN fs

\* The label detection gives the converted file.
RedetectedLabel == detect_encoding(fs, DestPath, call.chardet).encoding

\* The converted bytes decoded with the codec of the re-detected label.
RedecodedText == decode_without_bom_handling(Unwrap(for_label(RedetectedLabel)), fs[DestPath])

\* C15: verify_conversion gives VerificationFailed, and never success, when
\* the converted file is empty, when its re-detected label has no codec (the
\* labels of the UTF-32 markers among them), when decoding the converted
\* bytes with that codec produces errors, and when the decoded text holds a
\* control character that is not whitespace.
C15_VerificationFailures ==
    VerifyDone =>
        /\ fs[DestPath] = <<>> => Unwrap(ret) = Err("VerificationFailed")
        /\ RedetectedLabel \in {"UTF-32LE", "UTF-32BE"} => Unwrap(ret) = Err("VerificationFailed")
        /\ ~IsSome(for_label(RedetectedLabel)) => Unwrap(ret) = Err("VerificationFailed")
        /\ (IsSome(for_label(RedetectedLabel)) /\ RedecodedText.had_errors)
              => Unwrap(ret) = Err("VerificationFailed")
        /\ (/\ IsSome(for_label(RedetectedLabel))
            /\ \E i \in 1..Len(RedecodedText.text) :
                  /\ is_control(RedecodedText.text[i])
                  /\ ~is_whitespace(RedecodedText.text[i]))
              => Unwrap(ret) = Err("VerificationFailed")

\* C15 witness: a converted file that decodes without errors to a text with
\* the control character U+0001 has been verified and refused.
C15_Witness ==
    /\ VerifyDone
    /\ fs[DestPath] = <<97, 1, 10>>
    /\ RedetectedLabel = "ASCII"
    /\ ~RedecodedText.had_errors
    /\ Unwrap(ret) = Err("VerificationFailed")

(***************************************************************************)
(* A further property of the batch run (Spec).                             *)
(***************************************************************************)
\* C16: in a batch run two distinct input files are never written to the
\* same output path, also when files of different subdirectories share a file
\* name: no converted result is overwritten by a later file of the batch.
C16_DistinctOutputPaths ==
    \A e1, e2 \in effects :
        (e1.op = "write" /\ e2.op = "write" /\ e1.idx # e2.idx) => e1.path # e2.path

====
